---- MODULE Spec2Model ----
(***************************************************************************)
(* Constrained-dynamics core of the catapult simulator: the solveSchur     *)
(* bodies installed by fix_physics_final.py and fix_physics_clean.py, the  *)
(* pivot clamp those scripts leave in the linear solver, the active mask   *)
(* installed by fix_sling.py with the ground redo test of fix_solver.py,   *)
(* and the Baumgarte terms of gamma as fix_derivatives.py and              *)
(* fix_derivatives_v2.py leave them, the statements fix_derivatives_v2.py  *)
(* writes for the two slings, and the line loops of fix_derivatives_v2.py  *)
(* and fix_sling.py that rewrite src/physics/derivatives.ts.  solveSchur   *)
(* is translated twice: with rounded numbers, and with exact rationals     *)
(* (ExactSchur) for the properties that are stated for exact arithmetic.   *)
(*                                                                         *)
(* Numbers.  A JavaScript number is modelled as a record [k, n, d]:        *)
(* k = "fin" is the rational n/d (d > 0, lowest terms), and "nan",         *)
(* "pinf", "ninf" are NaN, +Infinity and -Infinity with the IEEE-754       *)
(* rules for them.  A finite number is zero or m * 2^e with a significand  *)
(* m of Precision bits, and every operation rounds its exact result to     *)
(* the nearest such number, ties to the even significand, as IEEE-754      *)
(* does with 53 bits.  The exponent is unbounded: overflow to Infinity,    *)
(* underflow and the sign of zero are not modelled.                        *)
(***************************************************************************)
EXTENDS Integers, Sequences, FiniteSets, TLC

\* ------------------------------------------------------------------ numbers

RECURSIVE Gcd(_, _)
Gcd(a, b) == IF b = 0 THEN a ELSE Gcd(b, a % b)

AbsInt(a) == IF a < 0 THEN -a ELSE a

\* n/d with both divided by g, and the sign carried by the numerator.
Reduced(n, d, g) ==
  [k |-> "fin", n |-> (IF d < 0 THEN -1 ELSE 1) * (n \div g), d |-> AbsInt(d) \div g]

\* The rational n/d in lowest terms with a positive denominator (d # 0).
Fin(n, d) == Reduced(n, d, Gcd(AbsInt(n), AbsInt(d)))

Num(i) == [k |-> "fin", n |-> i, d |-> 1]
Zero == Num(0)
One == Num(1)
NaN == [k |-> "nan", n |-> 0, d |-> 1]
PInf == [k |-> "pinf", n |-> 0, d |-> 1]
NInf == [k |-> "ninf", n |-> 0, d |-> 1]

IsFin(x) == x.k = "fin"
isNaN(x) == x.k = "nan"
IsInf(x) == x.k \in {"pinf", "ninf"}

\* -1, 0 or 1; NaN has no sign and is never passed.
Sgn(x) ==
  CASE x.k = "pinf" -> 1
    [] x.k = "ninf" -> -1
    [] OTHER -> IF x.n > 0 THEN 1 ELSE IF x.n < 0 THEN -1 ELSE 0

InfOf(s) == IF s > 0 THEN PInf ELSE NInf

Neg(x) ==
  CASE x.k = "fin" -> [x EXCEPT !.n = -x.n]
    [] x.k = "pinf" -> NInf
    [] x.k = "ninf" -> PInf
    [] OTHER -> NaN

\* Bits of the significand (53 in an IEEE-754 double).
Precision == 3

RECURSIVE Pow2(_)
Pow2(e) == IF e <= 0 THEN 1 ELSE 2 * Pow2(e - 1)

\* The least significand of Precision bits.
MinSignificand == Pow2(Precision - 1)

\* <<num, den, e>> with n/d = (num/den) * base^e and
\* lo <= num/den < lo * base, for n, d > 0.
RECURSIVE Normalize(_, _, _, _, _)
Normalize(num, den, e, base, lo) ==
  IF num >= lo * base * den THEN Normalize(num, base * den, e + 1, base, lo)
  ELSE IF num < lo * den THEN Normalize(base * num, den, e - 1, base, lo)
  ELSE <<num, den, e>>

\* m * 2^e
Scaled(m, e) == Fin(m * Pow2(e), Pow2(-e))

\* m + r/den rounded to an integer, a tie to the even one.
HalfEven(m, r, den) ==
  IF 2 * r > den \/ (2 * r = den /\ m % 2 = 1) THEN m + 1 ELSE m

RoundScaled(t) == Scaled(HalfEven(t[1] \div t[2], t[1] % t[2], t[2]), t[3])

WithSign(s, v) == IF s < 0 THEN Neg(v) ELSE v

\* The number nearest to x with a significand of Precision bits, ties to even.
Round(x) ==
  IF x.k # "fin" \/ x.n = 0 THEN x
  ELSE WithSign(x.n, RoundScaled(Normalize(AbsInt(x.n), x.d, 0, 2, MinSignificand)))

AddFin(a, b, g) ==
  Round(Fin(a.n * (b.d \div g) + b.n * (a.d \div g), a.d * (b.d \div g)))

Add(a, b) ==
  IF isNaN(a) \/ isNaN(b) THEN NaN
  ELSE IF IsInf(a) /\ IsInf(b) THEN (IF a = b THEN a ELSE NaN)
  ELSE IF IsInf(a) THEN a
  ELSE IF IsInf(b) THEN b
  ELSE AddFin(a, b, Gcd(a.d, b.d))

Sub(a, b) == Add(a, Neg(b))

MulFin(a, b, g1, g2) ==
  Round(Fin((a.n \div g1) * (b.n \div g2), (a.d \div g2) * (b.d \div g1)))

Mul(a, b) ==
  IF isNaN(a) \/ isNaN(b) THEN NaN
  ELSE IF IsInf(a) \/ IsInf(b)
       THEN (IF Sgn(a) * Sgn(b) = 0 THEN NaN ELSE InfOf(Sgn(a) * Sgn(b)))
  ELSE MulFin(a, b, Gcd(AbsInt(a.n), b.d), Gcd(AbsInt(b.n), a.d))

\* a / b, rounded once: x/0 is an infinity of x's sign (0/0 is NaN), x/Infinity is 0.
Div(a, b) ==
  IF isNaN(a) \/ isNaN(b) THEN NaN
  ELSE IF IsInf(a) THEN (IF IsInf(b) THEN NaN
                         ELSE InfOf(Sgn(a) * (IF Sgn(b) < 0 THEN -1 ELSE 1)))
  ELSE IF IsInf(b) THEN Zero
  ELSE IF b.n = 0 THEN (IF a.n = 0 THEN NaN ELSE InfOf(Sgn(a)))
  ELSE Mul(a, Fin(b.d, b.n))

\* a < b as JavaScript evaluates it: false when either side is NaN.
Lt(a, b) ==
  IF isNaN(a) \/ isNaN(b) THEN FALSE
  ELSE IF a = b THEN FALSE
  ELSE IF a.k = "ninf" \/ b.k = "pinf" THEN TRUE
  ELSE IF a.k = "pinf" \/ b.k = "ninf" THEN FALSE
  ELSE a.n * b.d < b.n * a.d

Gt(a, b) == Lt(b, a)

\* Math.abs
MathAbs(x) ==
  CASE x.k = "fin" -> [x EXCEPT !.n = AbsInt(x.n)]
    [] x.k = "nan" -> NaN
    [] OTHER -> PInf

\* Math.max of two numbers: NaN when either is NaN.
MathMax(a, b) ==
  IF isNaN(a) \/ isNaN(b) THEN NaN ELSE IF Lt(a, b) THEN b ELSE a

RECURSIVE ISqrt(_, _)
\* The largest r >= lo with r * r <= n (called with lo * lo <= n).
ISqrt(n, lo) == IF (lo + 1) * (lo + 1) > n THEN lo ELSE ISqrt(n, lo + 1)

\* m or m + 1, whichever is nearer to the root of num/den, for m its
\* integer root; the even one when the root is m + 1/2.
NearerRoot(num, den, m) ==
  IF \/ 4 * num > (2 * m + 1) * (2 * m + 1) * den
     \/ (4 * num = (2 * m + 1) * (2 * m + 1) * den /\ m % 2 = 1)
  THEN m + 1 ELSE m

SqrtScaled(t) ==
  Scaled(NearerRoot(t[1], t[2], ISqrt(t[1] \div t[2], MinSignificand)), t[3])

\* Math.sqrt, correctly rounded: with x = q * 4^e and
\* 4^(Precision-1) <= q < 4^Precision, the root is m * 2^e or (m + 1) * 2^e for
\* m the integer root of q, whichever is nearer.
MathSqrt(x) ==
  CASE x.k = "nan" -> NaN
    [] x.k = "ninf" -> NaN
    [] x.k = "pinf" -> PInf
    [] OTHER ->
       IF x.n < 0 THEN NaN
       ELSE IF x.n = 0 THEN Zero
       ELSE SqrtScaled(Normalize(x.n, x.d, 0, 4, MinSignificand * MinSignificand))

\* JavaScript reads an index outside an array as undefined, and undefined in
\* arithmetic is NaN.
At(s, i) == IF i \in DOMAIN s THEN s[i] ELSE NaN

RECURSIVE SumFrom(_, _, _)
\* acc + s[1] + ... + s[Len(s)], added left to right as the loops do.
SumFrom(s, j, acc) ==
  IF j > Len(s) THEN acc ELSE SumFrom(s, j + 1, Add(acc, s[j]))

SumSeq(s) == SumFrom(s, 1, Zero)

\* ------------------------------------------------- dense linear solver (4.3)

\* The threshold and the floor of the pivot clamp.  The source's 1e-18 is
\* scaled to 2^-10: numerators and denominators are 32-bit integers here,
\* and the inputs are small numbers, far above either value.
PivotFloor == Fin(1, 1024)

\* The elimination with the clamp left out.
ClampNone(pV) == pV

\* The clamp with the sign test left out.
ClampPositive(pV) ==
  IF Lt(MathAbs(pV), PivotFloor) THEN PivotFloor ELSE pV

\*   if (Math.abs(pV) < 1e-18) U[i][i] = pV < 0 ? -1e-18 : 1e-18
ClampPivot(pV) ==
  IF Lt(MathAbs(pV), PivotFloor)
  THEN (IF Lt(pV, Zero) THEN Neg(PivotFloor) ELSE PivotFloor)
  ELSE pV

RECURSIVE PivotRow(_, _, _, _)
\* Partial pivoting: the first row r >= i of greatest |A[r][i]|.
PivotRow(A, i, r, best) ==
  IF r > Len(A) THEN best
  ELSE PivotRow(A, i, r + 1,
                IF Gt(MathAbs(A[r][i]), MathAbs(A[best][i])) THEN r ELSE best)

Swap(s, i, p) == [r \in DOMAIN s |-> IF r = i THEN s[p] ELSE IF r = p THEN s[i] ELSE s[r]]

\* One elimination step on column i of the system A x = b.
EliminateStep(A, b, i) ==
  LET p == PivotRow(A, i, i + 1, i)
      A1 == Swap(A, i, p)
      b1 == Swap(b, i, p)
      pV == ClampPivot(A1[i][i])
      f == [r \in DOMAIN A1 |-> IF r > i THEN Div(A1[r][i], pV) ELSE Zero]
  IN  [A |-> [r \in DOMAIN A1 |->
                [c \in DOMAIN A1[r] |->
                   IF r = i /\ c = i THEN pV
                   ELSE IF r > i /\ c = i THEN Zero
                   ELSE IF r > i /\ c > i THEN Sub(A1[r][c], Mul(f[r], A1[i][c]))
                   ELSE A1[r][c]]],
       b |-> [r \in DOMAIN b1 |->
                IF r > i THEN Sub(b1[r], Mul(f[r], b1[i])) ELSE b1[r]]]

RECURSIVE Eliminate(_, _, _)
Eliminate(A, b, i) ==
  IF i > Len(A) THEN [A |-> A, b |-> b]
  ELSE LET s == EliminateStep(A, b, i) IN Eliminate(s.A, s.b, i + 1)

RECURSIVE BackSubstitute(_, _, _, _)
\* x[i] = (y[i] - sum over j > i of U[i][j] * x[j]) / U[i][i], for i = n .. 1;
\* x holds the entries found so far, x[i+1 .. n].
BackSubstitute(U, y, i, x) ==
  IF i < 1 THEN x
  ELSE LET n == Len(U)
           s == SumSeq([j \in 1..(n - i) |-> Mul(U[i][i + j], x[j])])
           xi == Div(Sub(y[i], s), U[i][i])
       IN  BackSubstitute(U, y, i - 1, <<xi>> \o x)

\* solveLinearSystem(A, b): LU elimination with partial pivoting and the pivot
\* clamp, then back substitution.  It has no failure exit.
solveLinearSystem(A, b) ==
  LET e == Eliminate(A, b, 1) IN BackSubstitute(e.A, e.b, Len(A), <<>>)

\* ------------------------------------------- constrained-dynamics solver (4.4)
\* Indices are 1-based here: constraint c of the model is index c - 1 of the
\* source, and the -1 that marks an inactive entry of mask.map is 0.

NoIdx == 0

\*   mask.map((m, i) => (m ? i : -1)).filter((i) => i !== -1)
ActiveIdx(mask) ==
  SelectSeq([i \in 1..Len(mask) |-> IF mask[i] THEN i ELSE NoIdx],
            LAMBDA i : i # NoIdx)

\* FreeAccel with the factor Minv[i] forgotten.
FreeAccelNoMinv(Q, Minv) == Q

\* Q.map((q, i) => q * Minv[i]): the return value of the m === 0 branch.
FreeAccel(Q, Minv) == [i \in 1..Len(Q) |-> Mul(Q[i], At(Minv, i))]

\* new Float64Array(n)
ZeroArray(n) == [i \in 1..n |-> Zero]

\* The coefficient of the compliance term: 4.0 in fix_physics_final.py, 1.0 in
\* fix_physics_clean.py.
ComplianceCoef(variant) == IF variant = "final" THEN Num(4) ELSE One

\*   compliance = (coef * dtRef * dtRef) / m_p
Compliance(variant, cfg) ==
  Div(Mul(Mul(ComplianceCoef(variant), cfg.dtRef), cfg.dtRef), cfg.m_p)

\*   eps = KKT_REGULARIZATION_BASE * N (final), KKT_REGULARIZATION_BASE (clean)
Eps(variant, cfg) ==
  IF variant = "final" THEN Mul(cfg.base, Num(cfg.N)) ELSE cfg.base

\*   for (j) sum += Ji[j] * Minv[j] * Jk[j]
RowDot(Ji, Minv, Jk, dimQ) ==
  SumSeq([j \in 1..dimQ |-> Mul(Mul(At(Ji, j), At(Minv, j)), At(Jk, j))])

\* S as the k loop leaves it, before anything is added to the diagonal.
AssembleS(J, Minv, activeIdx, dimQ) ==
  [i \in 1..Len(activeIdx) |->
     [k \in 1..Len(activeIdx) |->
        RowDot(J[activeIdx[i]], Minv, J[activeIdx[k]], dimQ)]]

\*   rhs[i] = jm_q - gamma[idxA_S]
AssembleRhs(J, Minv, Q, gamma, activeIdx, dimQ) ==
  [i \in 1..Len(activeIdx) |->
     Sub(RowDot(J[activeIdx[i]], Minv, Q, dimQ), At(gamma, activeIdx[i]))]

\*   if (idxA_S < N + 2): the constraint gets the compliance term
IsSoft(c, cfg) == c - 1 < cfg.N + 2

\*   if (idxA_S < N + 2) S[i][i] += compliance ;  S[i][i] += eps
Regularize(S, activeIdx, compliance, eps, cfg) ==
  [i \in DOMAIN S |->
     [k \in DOMAIN S[i] |->
        IF k = i
        THEN Add(IF IsSoft(activeIdx[i], cfg) THEN Add(S[i][i], compliance)
                 ELSE S[i][i], eps)
        ELSE S[i][k]]]

\* The floor under the diagonal in the equilibration: the source's 1e-16, a
\* hundred times the pivot floor, on the scale of PivotFloor.
EquilFloor == Fin(1, 16)

\*   D[i] = 1.0 / Math.sqrt(Math.max(S[i][i], 1e-16))
Scales(S) == [i \in DOMAIN S |-> Div(One, MathSqrt(MathMax(S[i][i], EquilFloor)))]

\*   S[i][j] *= D[i] * D[j]
ScaleS(S, D) ==
  [i \in DOMAIN S |-> [j \in DOMAIN S[i] |-> Mul(S[i][j], Mul(D[i], D[j]))]]

\*   rhs[i] *= D[i]
ScaleRhs(rhs, D) == [i \in DOMAIN rhs |-> Mul(rhs[i], D[i])]

\*   solLambdaRaw.map((val, i) => (isNaN(val) ? 0 : val * D[i]))
Unscale(raw, D) ==
  [i \in DOMAIN raw |-> IF isNaN(raw[i]) THEN Zero ELSE Mul(raw[i], D[i])]

\* Scatter without the indirection: fullLambda[i] = solLambda[i].
ScatterDense(activeIdx, solLambda, dimC) ==
  [c \in 1..dimC |-> IF c \in DOMAIN solLambda THEN solLambda[c] ELSE Zero]

\*   for (i < m) fullLambda[activeIdx[i]] = solLambda[i]
\* written into a Float64Array(dimC): a write outside 0..dimC-1 is dropped.
Scatter(activeIdx, solLambda, dimC) ==
  [c \in 1..dimC |->
     IF \E i \in DOMAIN activeIdx : activeIdx[i] = c
     THEN LET last == CHOOSE i \in DOMAIN activeIdx :
                        /\ activeIdx[i] = c
                        /\ \A i2 \in DOMAIN activeIdx : activeIdx[i2] = c => i2 <= i
          IN  At(solLambda, last)
     ELSE Zero]

\* The recovery with the mask test left out: every row of J is read.
AccelUnmasked(J, Minv, Q, mask, fullLambda, dimQ, dimC) ==
  [j \in 1..dimQ |->
     Mul(At(Minv, j),
         Sub(At(Q, j),
             SumSeq([c \in 1..dimC |-> Mul(At(J[c], j), fullLambda[c])])))]

\* J and gamma with the row and the entry of every inactive constraint
\* replaced by v.
Elsewhere(A, mask, v) == [c \in DOMAIN A |-> IF mask[c] THEN A[c] ELSE v]

\* Accel with the constraint forces left out.
AccelUnconstrained(J, Minv, Q, mask, fullLambda, dimQ, dimC) ==
  [j \in 1..dimQ |-> Mul(At(Minv, j), At(Q, j))]

\*   for (i < dimC) if (mask[i]) jt_lambda += J[i][j] * fullLambda[i]
\*   q_ddot_res[j] = Minv[j] * (Q[j] - jt_lambda)
Accel(J, Minv, Q, mask, fullLambda, dimQ, dimC) ==
  [j \in 1..dimQ |->
     LET jt_lambda == SumSeq([c \in 1..dimC |->
                                IF c \in DOMAIN mask /\ mask[c]
                                THEN Mul(At(J[c], j), fullLambda[c]) ELSE Zero])
     IN  Mul(At(Minv, j), Sub(At(Q, j), jt_lambda))]

\* A property access on undefined throws a TypeError: J[idx][j] with idx
\* outside J, in the assembly loop (every active index) and in the recovery
\* loop (every index below dimC whose mask entry is true).
Throws(J, mask, activeIdx, dimQ, dimC) ==
  /\ dimQ > 0
  /\ \/ \E i \in DOMAIN activeIdx : activeIdx[i] \notin DOMAIN J
     \/ \E c \in 1..dimC : c \in DOMAIN mask /\ mask[c] /\ c \notin DOMAIN J

NoLocals ==
  [S_asm |-> <<>>, S_reg |-> <<>>, S |-> <<>>, rhs |-> <<>>, D |-> <<>>,
   raw |-> <<>>, solLambda |-> <<>>]

\* solveSchur(mask) as installed by fix_physics_final.py ("final") or by
\* fix_physics_clean.py ("clean"): the outcome, the locals of the call and
\* the returned pair.
solveSchur(variant, cfg, dimQ, dimC, J, Minv, Q, gamma, mask) ==
  LET activeIdx == ActiveIdx(mask)
      m == Len(activeIdx)
  IN
  IF m = 0
  THEN [status |-> "returned", path |-> "free", activeIdx |-> activeIdx,
        loc |-> NoLocals,
        q_ddot |-> FreeAccel(Q, Minv), lambda |-> ZeroArray(dimC)]
  ELSE IF Throws(J, mask, activeIdx, dimQ, dimC)
  THEN [status |-> "thrown", path |-> "schur", activeIdx |-> activeIdx,
        loc |-> NoLocals, q_ddot |-> <<>>, lambda |-> <<>>]
  ELSE
  LET S_asm == AssembleS(J, Minv, activeIdx, dimQ)
      rhs0 == AssembleRhs(J, Minv, Q, gamma, activeIdx, dimQ)
      S_reg == Regularize(S_asm, activeIdx, Compliance(variant, cfg),
                          Eps(variant, cfg), cfg)
      D == IF variant = "final" THEN Scales(S_reg) ELSE <<>>
      S == IF variant = "final" THEN ScaleS(S_reg, D) ELSE S_reg
      rhs == IF variant = "final" THEN ScaleRhs(rhs0, D) ELSE rhs0
      raw == solveLinearSystem(S, rhs)
      solLambda == IF variant = "final" THEN Unscale(raw, D) ELSE raw
      fullLambda == Scatter(activeIdx, solLambda, dimC)
  IN  [status |-> "returned", path |-> "schur", activeIdx |-> activeIdx,
       loc |-> [S_asm |-> S_asm, S_reg |-> S_reg, S |-> S, rhs |-> rhs,
                D |-> D, raw |-> raw, solLambda |-> solLambda],
       q_ddot |-> Accel(J, Minv, Q, mask, fullLambda, dimQ, dimC),
       lambda |-> fullLambda]

\* ----------------------------------------- solveSchur in exact arithmetic

\* Product, difference and quotient of two finite values over the rationals:
\* the operations of solveSchur with no rounding.
ExactMul(a, b) ==
  Fin((a.n \div Gcd(AbsInt(a.n), b.d)) * (b.n \div Gcd(AbsInt(b.n), a.d)),
      (a.d \div Gcd(AbsInt(b.n), a.d)) * (b.d \div Gcd(AbsInt(a.n), b.d)))

ExactSub(a, b) ==
  Fin(a.n * (b.d \div Gcd(a.d, b.d)) - b.n * (a.d \div Gcd(a.d, b.d)),
      a.d * (b.d \div Gcd(a.d, b.d)))

ExactDiv(a, b) ==
  ExactMul(a, IF b.n < 0 THEN Fin(-b.d, -b.n) ELSE Fin(b.d, b.n))

\* Math.sqrt of the square of a rational.
ExactRoot(a) == Fin(ISqrt(a.n, 0), ISqrt(a.d, 0))

RECURSIVE ExactSum(_, _)
\* The sum of the first n entries of s.
ExactSum(s, n) ==
  IF n = 0 THEN Zero ELSE ExactSub(ExactSum(s, n - 1), Neg(s[n]))

\* The determinant of a matrix of one or two rows.
ExactDet(A) ==
  IF Len(A) = 1 THEN A[1][1]
  ELSE ExactSub(ExactMul(A[1][1], A[2][2]), ExactMul(A[1][2], A[2][1]))

\* The solution of A x = b for a non-singular A of one or two rows.
ExactSolve(A, b) ==
  IF Len(A) = 1 THEN <<ExactDiv(b[1], A[1][1])>>
  ELSE <<ExactDiv(ExactSub(ExactMul(b[1], A[2][2]), ExactMul(A[1][2], b[2])),
                  ExactDet(A)),
         ExactDiv(ExactSub(ExactMul(A[1][1], b[2]), ExactMul(b[1], A[2][1])),
                  ExactDet(A))>>

\* The scaled solution handed back as it is.
KeepScaled(raw, D) == raw

\*   solLambdaRaw.map((val, i) => (isNaN(val) ? 0 : val * D[i]))
\* on the finite values of exact arithmetic.
UnscaleExact(raw, D) == [i \in DOMAIN raw |-> ExactMul(raw[i], D[i])]

\* Lines 44-57 of fix_physics_final.py on the regularized S and rhs:
\*   D[i] = 1.0 / Math.sqrt(Math.max(S[i][i], 1e-16))
\*   rhs[i] *= D[i];  S[i][j] *= D[i] * D[j]
\*   solLambdaRaw = solveLinearSystem(S, Array.from(rhs))
\*   solLambda = solLambdaRaw.map(...)
EquilibratedSolve(S_asm, S, rhs, D) ==
  LET Ss == [i \in DOMAIN S |->
               [j \in DOMAIN S[i] |-> ExactMul(S[i][j], ExactMul(D[i], D[j]))]]
      rs == [i \in DOMAIN rhs |-> ExactMul(rhs[i], D[i])]
  IN  [S_asm |-> S_asm, S_reg |-> S, rhs_reg |-> rhs, S |-> Ss, rhs |-> rs,
       D |-> D, raw |-> ExactSolve(Ss, rs),
       solLambda |-> UnscaleExact(ExactSolve(Ss, rs), D)]

\* Line 42 of fix_physics_clean.py: solLambda = solveLinearSystem(S, rhs).
DirectSolve(S_asm, S, rhs) ==
  [S_asm |-> S_asm, S_reg |-> S, rhs_reg |-> rhs, S |-> S, rhs |-> rhs,
   D |-> <<>>, raw |-> ExactSolve(S, rhs), solLambda |-> ExactSolve(S, rhs)]

\*   for (j) sum += Ji[j] * Minv[j] * Jk[j]
ExactRowDot(Ji, Minv, Jk, dimQ) ==
  ExactSum([j \in 1..dimQ |-> ExactMul(ExactMul(Ji[j], Minv[j]), Jk[j])], dimQ)

\* The right-hand side with gamma read at the position i instead of the
\* constraint index activeIdx[i].
ExactRhsDense(J, Minv, Q, gamma, activeIdx, dimQ) ==
  [i \in 1..Len(activeIdx) |->
     ExactSub(ExactRowDot(J[activeIdx[i]], Minv, Q, dimQ), gamma[i])]

\*   rhs[i] = jm_q - gamma[idxA_S]
ExactRhs(J, Minv, Q, gamma, activeIdx, dimQ) ==
  [i \in 1..Len(activeIdx) |->
     ExactSub(ExactRowDot(J[activeIdx[i]], Minv, Q, dimQ), gamma[activeIdx[i]])]

\* What the regularization adds to the diagonal entry of constraint c:
\*   if (idxA_S < N + 2) S[i][i] += compliance ;  S[i][i] += eps
RegTerm(variant, cfg, c) ==
  ExactSub(Eps(variant, cfg),
           Neg(IF IsSoft(c, cfg) THEN Compliance(variant, cfg) ELSE Zero))

\* solveSchur(mask) with every operation exact, for finite inputs with at
\* most two active constraints.
ExactSchur(variant, cfg, dimQ, dimC, J, Minv, Q, gamma, mask) ==
  LET activeIdx == ActiveIdx(mask)
      m == Len(activeIdx)
  IN
  IF m = 0
  THEN [status |-> "returned", path |-> "free", activeIdx |-> activeIdx,
        loc |-> NoLocals,
        q_ddot |-> [i \in 1..Len(Q) |-> ExactMul(Q[i], Minv[i])],
        lambda |-> ZeroArray(dimC)]
  ELSE
  LET S_asm == [i \in 1..m |-> [k \in 1..m |->
                  ExactRowDot(J[activeIdx[i]], Minv, J[activeIdx[k]], dimQ)]]
      S_reg == [i \in 1..m |-> [k \in 1..m |->
                  IF k = i
                  THEN ExactSub(S_asm[i][i], Neg(RegTerm(variant, cfg, activeIdx[i])))
                  ELSE S_asm[i][k]]]
      rhs == ExactRhs(J, Minv, Q, gamma, activeIdx, dimQ)
      l == IF variant = "final"
           THEN EquilibratedSolve(S_asm, S_reg, rhs,
                  [i \in 1..m |->
                     ExactDiv(One, ExactRoot(MathMax(S_reg[i][i], EquilFloor)))])
           ELSE DirectSolve(S_asm, S_reg, rhs)
      fullLambda == Scatter(activeIdx, l.solLambda, dimC)
  IN  [status |-> "returned", path |-> "schur", activeIdx |-> activeIdx,
       loc |-> l,
       q_ddot |-> [j \in 1..dimQ |->
                     ExactMul(Minv[j],
                       ExactSub(Q[j],
                         ExactSum([c \in 1..dimC |->
                                     IF mask[c] THEN ExactMul(J[c][j], fullLambda[c])
                                     ELSE Zero], dimC)))],
       lambda |-> fullLambda]

\* The arrays solveSchur closes over or is passed.
InputObjects == {"J", "Minv", "Q", "gamma", "mask"}

NoHeap == [q_ddot |-> "none", lambda |-> "none", written |-> {}]

\* The heap with q_ddot returned as Q itself.
ReturnsQ(variant, status, path) ==
  [q_ddot |-> "Q", lambda |-> "new Float64Array(dimC)", written |-> {}]

\* The objects a call returns and the arrays it stores into.  m === 0:
\*   return { q_ddot: Q.map(...), lambda: new Float64Array(dimC) }
\* otherwise S[i][k] = ..., rhs[i] = ..., (D[i] = ... in fix_physics_final.py,)
\* fullLambda[...] = ..., q_ddot_res[j] = ..., all created by the call, and
\*   return { q_ddot: q_ddot_res, lambda: fullLambda }
\* solveLinearSystem is handed S and a copy, Array.from(rhs).
HeapAfter(variant, status, path) ==
  IF status = "thrown"
  THEN [q_ddot |-> "none", lambda |-> "none", written |-> {"S", "rhs"}]
  ELSE IF path = "free"
  THEN [q_ddot |-> "Q.map", lambda |-> "new Float64Array(dimC)", written |-> {}]
  ELSE [q_ddot |-> "q_ddot_res", lambda |-> "fullLambda",
        written |-> {"S", "rhs", "fullLambda", "q_ddot_res"}
                      \cup (IF variant = "final" THEN {"D"} ELSE {})]

\* ------------------------------------------------- active-set selector (4.2)
\* The mask has the source's six entries; entry c of the model is active[c-1]
\* of the source, and x[i] of the source is XAt(x, i).

Undefined == [def |-> FALSE, v |-> <<>>]
Defined(v) == [def |-> TRUE, v |-> v]

\*   x?.[i]: undefined when x is undefined
XAt(xv, i) == IF xv.def THEN xv.v[i + 1] ELSE NaN

\*   Math.sqrt(D[0]**2 + D[1]**2)
Dist(D) == MathSqrt(Add(Mul(D[1], D[1]), Mul(D[2], D[2])))

\*   distL > trebuchetProps.slingLength || x?.[12] < 0
\* (undefined < 0 is false, as NaN < 0 is)
SlingActive(dist, slingLength, xv, i) ==
  Gt(dist, slingLength) \/ Lt(XAt(xv, i), Zero)

\* Variants of the mask that differ from the code in one entry: they are what
\* the properties of the mask below must tell apart from it.
ActiveMaskContactKept(props, dl, dr, xv, released, rail) ==
  << TRUE, TRUE,
     SlingActive(Dist(dl), props.slingLength, xv, 12),
     SlingActive(Dist(dr), props.slingLength, xv, 13),
     TRUE,
     rail >>

ActiveMaskGroundFlipped(props, dl, dr, xv, released, rail) ==
  << TRUE, TRUE,
     SlingActive(Dist(dl), props.slingLength, xv, 12),
     SlingActive(Dist(dr), props.slingLength, xv, 13),
     ~released,
     ~rail >>

\* The mask with the hinges following the body contact.
ActiveMaskHingesReleased(props, dl, dr, xv, released, rail) ==
  << ~released, ~released,
     SlingActive(Dist(dl), props.slingLength, xv, 12),
     SlingActive(Dist(dr), props.slingLength, xv, 13),
     ~released,
     rail >>

\*   const active = [true, true, <Sling L>, <Sling R>, !wasReleased, onRail]
ActiveMask(props, dl, dr, xv, released, rail) ==
  << TRUE, TRUE,
     SlingActive(Dist(dl), props.slingLength, xv, 12),
     SlingActive(Dist(dr), props.slingLength, xv, 13),
     ~released,
     rail >>

\* The test of the ground redo, as fix_solver.py leaves it, on the solution
\* x of the solve under the mask act:
\*   if (active[5] && x[15] > 0)
GroundRedoTest(act, xv) == act[6] /\ Gt(XAt(xv, 15), Zero)

\* Solves of one evaluation: the one under the selector's mask and, when the
\* ground redo test holds, the redo.
SolvesOf(act, xv) == IF GroundRedoTest(act, xv) THEN 2 ELSE 1

\* An evaluation that cleared the flag, against which the latch is checked.
ReleasedCleared(released) == FALSE

\* The evaluation only reads wasReleased (in !wasReleased): the flag after
\* an evaluation is the flag before it.
ReleasedAfterEvaluate(released) == released

\* The clamp line of solveLinearSystem as the patch scripts see it, the text
\*   if (Math.abs(pV) < 1e-<thr>) U[i][i] = pV < 0 ? -1e-<neg> : 1e-<pos>
\* held as its three exponents.
ClampLine(thr, neg, pos) == [thr |-> thr, neg |-> neg, pos |-> pos]

\*   content = re.sub(r'if \(Math\.abs\(pV\) < 1e-1[248]\) U\[i\]\[i\] = pV < 0
\*                      \? -1e-1[248] : 1e-1[248]',
\*                    'if (Math.abs(pV) < 1e-18) U[i][i] = pV < 0 ? -1e-18 : 1e-18',
\*                    content)
\* Each of the three exponents is matched on its own by 1[248].
CleanSub(line) ==
  IF line.thr \in {12, 14, 18} /\ line.neg \in {12, 14, 18}
                               /\ line.pos \in {12, 14, 18}
  THEN ClampLine(18, 18, 18)
  ELSE line

\*   content = content.replace(
\*     'if (Math.abs(pV) < 1e-12) U[i][i] = pV < 0 ? -1e-12 : 1e-12',
\*     'if (Math.abs(pV) < 1e-12) U[i][i] = pV < 0 ? -1e-12 : 1e-12')
FinalReplace(line) ==
  IF line = ClampLine(12, 12, 12) THEN ClampLine(12, 12, 12) ELSE line

\* --------------------------------------------- the bias builder (4.1)

\* The coordinates are numbered as in the source, 0..9 (th, dl, q[2], q[3],
\* ph, q[5], q[6], ps, q[8], q[9]), and so are the constraints, 0..4.  The
\* values here are small integers, on which the arithmetic of doubles is
\* exact.

\* The columns the Baumgarte term of constraint c multiplies with q_dot:
\*   J[0][0] * dth + J[0][2] * q_dot[2] + J[0][4] * dph
\*   J[1][0] * dth + J[1][3] * q_dot[3] + J[1][4] * dph
\*   J[2][0] * dth + J[2][1] * ddl + J[2][5] * q_dot[5] + J[2][6] * q_dot[6]
\*     + J[2][7] * dps                                   (and so for J[3])
\*   J[4][5] * q_dot[5] + J[4][6] * q_dot[6] + J[4][8] * q_dot[8]
\*     + J[4][9] * q_dot[9]
VelocityCols(c) ==
  CASE c = 0 -> <<0, 2, 4>>
    [] c = 1 -> <<0, 3, 4>>
    [] c = 2 -> <<0, 1, 5, 6, 7>>
    [] c = 3 -> <<0, 1, 5, 6, 7>>
    [] c = 4 -> <<5, 6, 8, 9>>

RECURSIVE DotOver(_, _, _, _)
DotOver(cols, Jc, q_dot, n) ==
  IF n = 0 THEN 0
  ELSE DotOver(cols, Jc, q_dot, n - 1) + Jc[cols[n]] * q_dot[cols[n]]

\* The sum in parentheses of the Baumgarte term of constraint c.
VelocitySum(c, Jc, q_dot) ==
  DotOver(VelocityCols(c), Jc, q_dot, Len(VelocityCols(c)))

\* What the statements before the Baumgarte term leave in gamma[c]: the
\* first assignment and, for the slings, the centripetal terms.
Drift(dJq) == -dJq

\* The Baumgarte statement fix_derivatives.py leaves: "gamma[c] =
\* -gamma[c] -" is replaced by "gamma[c] +=" in front of
\*   2 * alpha_b * (...) - beta_b * beta_b * C
BaumgarteV1(g, alpha_b, beta_b, v, C) ==
  g + (2 * alpha_b * v - beta_b * beta_b * C)

\* The Baumgarte statement fix_derivatives_v2.py writes:
\*   gamma[c] += -2 * alpha_b * (...) - beta_b * beta_b * C
BaumgarteV2(g, alpha_b, beta_b, v, C) ==
  g + (-2 * alpha_b * v - beta_b * beta_b * C)

\* gamma[c] as the builder in the text named by builder computes it.
BuildGammaOf(builder, c, Jc, q_dot, alpha_b, beta_b, dJq, C) ==
  IF builder = "v1"
  THEN BaumgarteV1(Drift(dJq), alpha_b, beta_b, VelocitySum(c, Jc, q_dot), C)
  ELSE BaumgarteV2(Drift(dJq), alpha_b, beta_b, VelocitySum(c, Jc, q_dot), C)

\* The statements fix_derivatives_v2.py writes for a sling, on the vector D
\* of the sling (DL or DR) and the geometry g: the lengths Lf and Lw, half
\* the bag width W2, the cosines and sines of th, th + dl and ps as integers
\* on a common scale, and the velocities dth, ddl, dps.
\*   gamma[c] += 2 * (D[0] * (-Lf * Math.cos(th) * dth ** 2 -
\*                            Lw * Math.cos(th + dl) * (dth + ddl) ** 2) +
\*                    D[1] * (-Lf * Math.sin(th) * dth ** 2 -
\*                            Lw * Math.sin(th + dl) * (dth + ddl) ** 2))
TipCentripetal(D, g, dth, ddl) ==
  2 * (D[1] * (-g.Lf * g.cos_th * dth * dth
               - g.Lw * g.cos_thdl * (dth + ddl) * (dth + ddl))
       + D[2] * (-g.Lf * g.sin_th * dth * dth
                 - g.Lw * g.sin_thdl * (dth + ddl) * (dth + ddl)))

\* The bag statement of gamma[2], with the offset w in both components:
\*   gamma[2] += -2 * (DL[0] * ((W / 2) * Math.cos(ps) * dps ** 2) +
\*                     DL[1] * ((W / 2) * Math.sin(ps) * dps ** 2))
BagCentripetalLeft(D, w, g, dps) ==
  -2 * (D[1] * (w * g.cos_ps * dps * dps) + D[2] * (w * g.sin_ps * dps * dps))

\* The bag statement of gamma[3], for w = W / 2:
\*   gamma[3] += -2 * (DR[0] * ((-W / 2) * Math.cos(ps) * dps ** 2) +
\*                     DR[1] * ((W / 2) * Math.sin(ps) * dps ** 2))
BagCentripetalRight(D, w, g, dps) ==
  -2 * (D[1] * (-w * g.cos_ps * dps * dps) + D[2] * (w * g.sin_ps * dps * dps))

\* gamma[c] of sling c (2 left, 3 right) after its four statements: the
\* first assignment, -2 |dv|^2, the two centripetal statements and the
\* Baumgarte statement with C = D[0] ** 2 + D[1] ** 2 - slingLength ** 2.
SlingGammaOf(c, D, dv, bag, g, Jc, q_dot, alpha_b, beta_b) ==
  BaumgarteV2(-2 * (dv[1] * dv[1] + dv[2] * dv[2])
                + TipCentripetal(D, g, q_dot[0], q_dot[1]) + bag,
              alpha_b, beta_b, VelocitySum(c, Jc, q_dot),
              D[1] * D[1] + D[2] * D[2] - g.slingLength * g.slingLength)

\* ------------------------------------------------------------------- state

VARIABLES
  variant,      \* which patch installed solveSchur: "final" or "clean"
  cfg,          \* KKT_REGULARIZATION_BASE, N, dtRef, m_p
  dimQ, dimC,   \* the dimensions the caller fixed
  J, Minv, Q, gamma,   \* the solver's inputs, closed over by solveSchur
  mask,         \* the argument of solveSchur
  pc,           \* "call" before solveSchur runs, then "returned" or "thrown"
  path,         \* "free" for the m === 0 return, "schur" otherwise
  activeIdx,    \* the local activeIdx
  loc,          \* the locals S (as assembled, regularized, handed to the
                \* linear solver), rhs, D, solLambdaRaw, solLambda
  q_ddot, lambda,      \* the returned pair
  heap,         \* which objects the returned pair are and which arrays the
                \* call stored into
  \* the evaluation that builds the mask (computeDerivatives):
  trebuchetProps,      \* the configuration; only slingLength is read
  DL, DR,       \* the vectors between the attachment points of the left and
                \* the right sling, functions of q
  dvL, dvR,     \* their time derivatives, functions of q and q_dot
  onRail,       \* the ground contact indicator, a function of q
  wasReleased,  \* the released flag
  x,            \* the solution vector in scope when the mask is built:
                \* undefined before the first solve, then the last solution
                \* [q_ddot (10 entries), lambda (6 entries)]
  active,       \* the mask the last evaluation built
  solves,       \* the solves the last evaluation made
  fresh,        \* TRUE while q, q_dot and released are as the last evaluation read them
  \* the patch scripts and one pivot of the elimination:
  content,      \* the clamp line of src/physics/derivatives.ts
  scriptsRun,   \* the patch scripts that have run on it
  pV,           \* the pivot the elimination step meets
  Uii,          \* U[i][i]
  clamped,      \* TRUE once the clamp line has run on the pivot
  \* the bias builder:
  builder,      \* the text of the Baumgarte statements in derivatives.ts:
                \* "original", "v1" (after fix_derivatives.py) or "v2" (after
                \* fix_derivatives_v2.py)
  con,          \* the constraint whose gamma is built, 0..4
  Jc,           \* its row of J
  q_dot,        \* the velocities
  alpha_b, beta_b,     \* the Baumgarte gains
  dJq,          \* dJ[c]/dt . q_dot
  pos_C,        \* the position residual C(q)
  gammaC,       \* gamma[c] as built
  sling,        \* for a sling: its vector D, the derivative dv of D and the
                \* geometry the centripetal statements read
  built,        \* TRUE once gamma[c] has been built
  \* the scripts that rewrite the file line by line:
  script,       \* the script whose fix_file runs
  file,         \* the lines of src/physics/derivatives.ts on disk
  before,       \* the file as the run at hand found it
  lines,        \* lines = f.readlines()
  index,        \* i, the index of the loop
  new_lines,    \* the list the loop appends to
  from,         \* for each entry of new_lines the index (from 1) of the
                \* input line it is a copy of, 0 for a line the script wrote
  fpc,          \* "start", "loop" while the loop runs, "done" once written
  runs          \* the runs completed

solveVars ==
  <<variant, cfg, dimQ, dimC, J, Minv, Q, gamma, mask, pc, path, activeIdx,
    loc, q_ddot, lambda, heap>>

maskVars ==
  <<trebuchetProps, DL, DR, dvL, dvR, onRail, wasReleased, x, active, solves,
    fresh>>

patchVars == <<content, scriptsRun, pV, Uii, clamped>>

biasVars ==
  <<builder, con, Jc, q_dot, alpha_b, beta_b, dJq, pos_C, gammaC, sling,
    built>>

fileVars ==
  <<script, file, before, lines, index, new_lines, from, fpc, runs>>

vars == <<solveVars, maskVars, patchVars, biasVars, fileVars>>

\* What the actions of one part leave alone.
besideSolve == <<maskVars, patchVars, biasVars, fileVars>>
besideMask == <<solveVars, patchVars, biasVars, fileVars>>
besidePatch == <<cfg, dimQ, dimC, J, Minv, Q, gamma, mask, pc, path, activeIdx,
                 loc, q_ddot, lambda, heap, maskVars, biasVars, fileVars>>
besideBias == <<solveVars, maskVars, patchVars, fileVars>>
besideFile == <<solveVars, maskVars, patchVars, biasVars>>

inputs == <<variant, cfg, dimQ, dimC, J, Minv, Q, gamma, mask>>

\* ---------------------------------------------------------- bounded inputs

MaxDimQ == 2
MaxDimC == 4
\* J has at most MaxEntries entries: the fourth constraint, the first that is
\* not soft, is met with one coordinate.
MaxEntries == 6
MaxN == 1

Variants == {"final", "clean"}
\* compliance = 1/4 ("final") or 1/16 ("clean"), eps = 1/4 * N
Configs == [base : {Fin(1, 4)}, dtRef : {Fin(1, 4)}, m_p : {One}, N : 1..MaxN]
\* The rows of J over n coordinates: the zero row, 3 e1, 5 e1 - en and, for
\* n > 1, -en.
JRows(n) ==
  {[j \in 1..n |-> Zero],
   [j \in 1..n |-> IF j = 1 THEN Num(3) ELSE Zero],
   [j \in 1..n |-> IF j = 1 THEN Num(5) ELSE IF j = n THEN Num(-1) ELSE Zero]}
  \cup (IF n > 1 THEN {[j \in 1..n |-> IF j = n THEN Num(-1) ELSE Zero]} ELSE {})
\* Minv is [v, 1, 1, ...]
MinvVals == {One, Num(3)}
MinvOf(v, n) == [j \in 1..n |-> IF j = 1 THEN v ELSE One]
\* Q is [q1, 2, 3, ...] and gamma is [g1, 0, g1, 0, ...]; the load cases
\* <<q1, g1>> include the non-finite values a diverging run hands over.
LoadCases ==
  {<<Num(-1), Zero>>, <<Num(10), One>>,
   <<PInf, Zero>>, <<NInf, One>>, <<NaN, Zero>>, <<Num(10), NaN>>}

QOf(q1, n) == [j \in 1..n |-> IF j = 1 THEN q1 ELSE Num(j)]
GammaOf(g1, n) == [c \in 1..n |-> IF c % 2 = 1 THEN g1 ELSE Zero]

\* The inputs over the grid of rows, masses and load cases.
GridInputs ==
  /\ dimQ \in 1..MaxDimQ
  /\ dimC \in 1..MaxDimC
  /\ dimQ * dimC <= MaxEntries
  /\ J \in [1..dimC -> JRows(dimQ)]
  /\ \E v \in MinvVals : Minv = MinvOf(v, dimQ)
  /\ \E lc \in LoadCases : Q = QOf(lc[1], dimQ) /\ gamma = GammaOf(lc[2], dimC)
  /\ mask \in [1..dimC -> BOOLEAN]

\* The single hinge that holds the first coordinate against a force of 10:
\* J = [[1, 0, ...]], gamma = [0], Minv = [1, 1, ...], Q = [10, 0, ...].
HingeScenario ==
  /\ dimQ \in 1..MaxDimQ
  /\ dimC = 1
  /\ J = <<[j \in 1..dimQ |-> IF j = 1 THEN One ELSE Zero]>>
  /\ Minv = [j \in 1..dimQ |-> One]
  /\ Q = [j \in 1..dimQ |-> IF j = 1 THEN Num(10) ELSE Zero]
  /\ gamma = <<Zero>>
  /\ mask = <<TRUE>>

SolveInit ==
  /\ variant \in Variants
  /\ cfg \in Configs
  /\ GridInputs \/ HingeScenario
  /\ pc = "call"
  /\ path = "none"
  /\ activeIdx = <<>>
  /\ loc = NoLocals
  /\ q_ddot = <<>>
  /\ lambda = <<>>
  /\ heap = NoHeap

\* An array one entry short.
Shorten(s) == SubSeq(s, 1, Len(s) - 1)

MismatchKinds ==
  {"Minv short", "Q short", "Q long", "J row short", "gamma short",
   "mask short", "mask long"}

\* Inputs of the grid with one array of the wrong length: solveSchur closes
\* over dimQ, dimC, J, Minv, Q and gamma and checks none of their lengths.
MismatchedInputs ==
  /\ dimQ = MaxDimQ
  /\ dimC \in 1..2
  /\ \E kind \in MismatchKinds, J0 \in [1..dimC -> JRows(dimQ)], v \in MinvVals,
        q1 \in {Num(-1), Num(10)}, m0 \in [1..dimC -> BOOLEAN] :
        /\ J = IF kind = "J row short"
               THEN [J0 EXCEPT ![1] = Shorten(J0[1])] ELSE J0
        /\ Minv = IF kind = "Minv short" THEN Shorten(MinvOf(v, dimQ))
                  ELSE MinvOf(v, dimQ)
        /\ Q = CASE kind = "Q short" -> Shorten(QOf(q1, dimQ))
                 [] kind = "Q long" -> Append(QOf(q1, dimQ), One)
                 [] OTHER -> QOf(q1, dimQ)
        /\ gamma = IF kind = "gamma short" THEN Shorten(GammaOf(One, dimC))
                   ELSE GammaOf(One, dimC)
        /\ mask = CASE kind = "mask short" -> Shorten(m0)
                    [] kind = "mask long" -> Append(m0, TRUE)
                    [] OTHER -> m0

MismatchInit ==
  /\ variant \in Variants
  /\ cfg \in Configs
  /\ MismatchedInputs
  /\ pc = "call"
  /\ path = "none"
  /\ activeIdx = <<>>
  /\ loc = NoLocals
  /\ q_ddot = <<>>
  /\ lambda = <<>>
  /\ heap = NoHeap

\* One call of solveSchur(mask) on the current inputs.
CallSolveSchur ==
  /\ pc = "call"
  /\ \E r \in {solveSchur(variant, cfg, dimQ, dimC, J, Minv, Q, gamma, mask)} :
         /\ pc' = r.status
         /\ path' = r.path
         /\ activeIdx' = r.activeIdx
         /\ loc' = r.loc
         /\ q_ddot' = r.q_ddot
         /\ lambda' = r.lambda
         /\ heap' = HeapAfter(variant, r.status, r.path)
  /\ UNCHANGED inputs
  /\ UNCHANGED besideSolve

\* ------------------------------------------------- evaluations over a run

\* Geometry the integrator can hand over: the sling vectors have length 4, 5
\* or 6 against a sling length of 5, and move apart or together.
DVals == {<<Num(0), Num(4)>>, <<Num(3), Num(4)>>, <<Num(0), Num(6)>>}
DvVals == {<<Num(0), Num(-1)>>, <<Num(0), Num(1)>>}
PropsVals == {[slingLength |-> Num(5)]}
LambdaVals == {Num(-1), Num(1)}

\* The solutions a solve under mask act can leave in x: the multiplier of an
\* inactive constraint is zero, that of an active one has any sign.  Only
\* x[12], x[13] and x[15] are read by the code modelled here; the other
\* entries are held at zero.
Solutions(act) ==
  {Defined([i \in 1..16 |->
              CASE i = 13 -> IF act[3] THEN l[1] ELSE Zero
                [] i = 14 -> IF act[4] THEN l[2] ELSE Zero
                [] i = 16 -> IF act[6] THEN l[3] ELSE Zero
                [] OTHER -> Zero]) : l \in [1..3 -> LambdaVals]}

NoMask == <<FALSE, FALSE, FALSE, FALSE, FALSE, FALSE>>

MaskInit ==
  /\ trebuchetProps \in PropsVals
  /\ DL \in DVals
  /\ DR \in DVals
  /\ dvL \in DvVals
  /\ dvR \in DvVals
  /\ onRail \in BOOLEAN
  /\ wasReleased = FALSE
  /\ x = Undefined
  /\ active = NoMask
  /\ solves = 0
  /\ fresh = FALSE

MaskIdle ==
  /\ trebuchetProps = [slingLength |-> Num(5)]
  /\ DL = <<Num(0), Num(4)>>
  /\ DR = <<Num(0), Num(4)>>
  /\ dvL = <<Num(0), Num(1)>>
  /\ dvR = <<Num(0), Num(1)>>
  /\ onRail = FALSE
  /\ wasReleased = FALSE
  /\ x = Undefined
  /\ active = NoMask
  /\ solves = 0
  /\ fresh = FALSE

SolveIdle ==
  /\ variant = "final"
  /\ cfg = [base |-> Fin(1, 4), dtRef |-> Fin(1, 2), m_p |-> One, N |-> 1]
  /\ dimQ = 1
  /\ dimC = 1
  /\ J = <<<<Zero>>>>
  /\ Minv = <<One>>
  /\ Q = <<Zero>>
  /\ gamma = <<Zero>>
  /\ mask = <<FALSE>>
  /\ pc = "call"
  /\ path = "none"
  /\ activeIdx = <<>>
  /\ loc = NoLocals
  /\ q_ddot = <<>>
  /\ lambda = <<>>
  /\ heap = NoHeap

\* One evaluation: the mask is built from the current geometry, x and
\* wasReleased, and the solve under it leaves its solution in x.
Evaluate ==
  /\ \E act \in {ActiveMask(trebuchetProps, DL, DR, x, wasReleased, onRail)} :
        /\ active' = act
        /\ \E xv \in Solutions(act) :
              /\ x' = xv
              /\ solves' = SolvesOf(act, xv)
  /\ wasReleased' = ReleasedAfterEvaluate(wasReleased)
  /\ fresh' = TRUE
  /\ UNCHANGED <<trebuchetProps, DL, DR, dvL, dvR, onRail>>
  /\ UNCHANGED besideMask

\* The integrator advances q and q_dot from the derivatives an evaluation
\* returned.
Integrate ==
  /\ fresh
  /\ DL' \in DVals
  /\ DR' \in DVals
  /\ dvL' \in DvVals
  /\ dvR' \in DvVals
  /\ onRail' \in BOOLEAN
  /\ fresh' = (fresh /\ DL' = DL /\ DR' = DR /\ dvL' = dvL /\ dvR' = dvR
                     /\ onRail' = onRail)
  /\ UNCHANGED <<trebuchetProps, wasReleased, x, active, solves>>
  /\ UNCHANGED besideMask

\* The caller's release condition sets the flag, once.
Release ==
  /\ ~wasReleased
  /\ wasReleased' = TRUE
  /\ fresh' = FALSE
  /\ UNCHANGED <<trebuchetProps, DL, DR, dvL, dvR, onRail, x, active, solves>>
  /\ UNCHANGED besideMask

\* ------------------------------------------ the patch scripts and the clamp

\* The pivots an elimination step can meet: zero, values below, at and above
\* the floor of either sign, and NaN.
PivotVals ==
  {Zero, One, Num(-1), NaN, PivotFloor, Neg(PivotFloor),
   Fin(1, 2048), Fin(-1, 2048), Fin(1, 512), Fin(-1, 512)}

\* The clamp line before the scripts run carries one of the exponents the
\* scripts themselves name (12 in fix_physics_final.py, 12, 14 and 18 in
\* fix_physics_clean.py).
PatchInit ==
  /\ \E t \in {12, 14, 18}, n \in {12, 14, 18}, p \in {12, 14, 18} :
        content = ClampLine(t, n, p)
  /\ scriptsRun = {}
  /\ pV \in PivotVals
  /\ Uii = pV
  /\ clamped = FALSE

PatchIdle ==
  /\ content = ClampLine(18, 18, 18)
  /\ scriptsRun = {}
  /\ pV = One
  /\ Uii = One
  /\ clamped = FALSE

\* python fix_physics_clean.py: the clamp line is substituted, solveSchur is
\* replaced by the script's body and the file is written.
fix_physics_clean ==
  /\ "fix_physics_clean.py" \notin scriptsRun
  /\ content' = CleanSub(content)
  /\ variant' = "clean"
  /\ scriptsRun' = scriptsRun \cup {"fix_physics_clean.py"}
  /\ UNCHANGED <<pV, Uii, clamped>>
  /\ UNCHANGED besidePatch

\* python fix_physics_final.py, likewise.
fix_physics_final ==
  /\ "fix_physics_final.py" \notin scriptsRun
  /\ content' = FinalReplace(content)
  /\ variant' = "final"
  /\ scriptsRun' = scriptsRun \cup {"fix_physics_final.py"}
  /\ UNCHANGED <<pV, Uii, clamped>>
  /\ UNCHANGED besidePatch

\* The clamp line of the patched solver runs on the pivot: ClampPivot is the
\* line with the exponents 18.
ClampStep ==
  /\ scriptsRun = {"fix_physics_clean.py", "fix_physics_final.py"}
  /\ content = ClampLine(18, 18, 18)
  /\ ~clamped
  /\ Uii' = ClampPivot(pV)
  /\ clamped' = TRUE
  /\ UNCHANGED <<content, scriptsRun, pV, variant>>
  /\ UNCHANGED besidePatch

\* ------------------------------------------------------- the bias builder

Coords == 0..9
\* No sling is being built.
NoSling ==
  [D |-> <<0, 0>>, dv |-> <<0, 0>>,
   g |-> [Lf |-> 0, Lw |-> 0, W2 |-> 0, slingLength |-> 0,
          cos_th |-> 0, sin_th |-> 0, cos_thdl |-> 0, sin_thdl |-> 0,
          cos_ps |-> 0, sin_ps |-> 0]]
\* Every velocity is non-zero, so that a column summed or left out shows.
QdotVals ==
  {[k \in Coords |-> k + 1], [k \in Coords |-> IF k % 2 = 0 THEN -1 ELSE 2]}
\* Row c of J is non-zero exactly on the coordinates constraint c depends on.
JcVals(c) ==
  {[k \in Coords |->
      IF \E n \in DOMAIN VelocityCols(c) : VelocityCols(c)[n] = k THEN e ELSE 0] :
   e \in {1, -2}}

BiasInit ==
  /\ builder = "original"
  /\ con \in 0..4
  /\ Jc \in JcVals(con)
  /\ q_dot \in QdotVals
  /\ alpha_b \in {1, 2}
  /\ beta_b \in {1, 2}
  /\ dJq \in {-3, 0, 4}
  /\ pos_C \in {-1, 0, 2}
  /\ gammaC = 0
  /\ sling = NoSling
  /\ built = FALSE

BiasIdle ==
  /\ builder = "v2"
  /\ con = 0
  /\ Jc = [k \in Coords |-> 0]
  /\ q_dot = [k \in Coords |-> 0]
  /\ alpha_b = 1
  /\ beta_b = 1
  /\ dJq = 0
  /\ pos_C = 0
  /\ gammaC = 0
  /\ sling = NoSling
  /\ built = FALSE

\* python fix_derivatives.py: the five replacements of "gamma[c] =
\* -gamma[c] -" by "gamma[c] +=".
fix_derivatives ==
  /\ builder = "original"
  /\ ~built
  /\ builder' = "v1"
  /\ UNCHANGED <<con, Jc, q_dot, alpha_b, beta_b, dJq, pos_C, gammaC, sling,
                 built>>
  /\ UNCHANGED besideBias

\* python fix_derivatives_v2.py: after the first assignment of each gamma[c]
\* the statements that follow are skipped by their number of lines, that of
\* fix_derivatives.py's output, and written anew.
fix_derivatives_v2 ==
  /\ builder = "v1"
  /\ ~built
  /\ builder' = "v2"
  /\ UNCHANGED <<con, Jc, q_dot, alpha_b, beta_b, dJq, pos_C, gammaC, sling,
                 built>>
  /\ UNCHANGED besideBias

\* The patched builder computes gamma[c].
BuildGamma ==
  /\ builder \in {"v1", "v2"}
  /\ ~built
  /\ gammaC' = BuildGammaOf(builder, con, Jc, q_dot, alpha_b, beta_b, dJq, pos_C)
  /\ built' = TRUE
  /\ UNCHANGED <<builder, con, Jc, q_dot, alpha_b, beta_b, dJq, pos_C, sling>>
  /\ UNCHANGED besideBias

\* --------------------------------------------- the scripts that rewrite lines

\* A line of src/physics/derivatives.ts is <<text, c, n>>.  For
\* fix_derivatives_v2.py only what the script tests of a line is kept:
\* <<"first", c, 0>> is the line that holds "gamma[c] =" and the text the
\* script looks for with it (L2 * Math.cos(th), L2 * Math.sin(th),
\* dvL[0] * dvL[0], dvR[0] * dvR[0], dvB[0] * dvB[0]); <<"old", c, n>> is the
\* n-th line after it in the file; <<"written", c, n>> is the n-th line the
\* script writes for gamma[c], which holds "gamma[c] +=" or no "gamma[c]" at
\* all and so never "gamma[c] ="; <<"other", 0, n>> is any other line.
NoBlock == -1

\* The block whose condition the line meets:
\*   if "gamma[0] =" in line and "L2 * Math.cos(th)" in line:  (and so on)
Block(line) == IF line[1] = "first" THEN line[2] ELSE NoBlock

\* The number of new_lines.append calls of the block after the line itself:
\* 3, 3, 8 + 4 + 11, 8 + 4 + 11 and 8.
Written(c) ==
  [n \in 1..(CASE c \in {0, 1} -> 3 [] c \in {2, 3} -> 23 [] c = 4 -> 8
               [] OTHER -> 0) |-> <<"written", c, n>>]

\* The lines passed over after the line itself: i += 3; i += 3;
\* i += 7, i += 3, i += 11 (twice); i += 8.
Skip(c) ==
  CASE c \in {0, 1} -> 3 [] c \in {2, 3} -> 21 [] c = 4 -> 8 [] OTHER -> 0

\* The index left where it is unless lines are passed over.
AdvanceSkipOnly(c) == Skip(c)

\* What one iteration adds to i: i += 1, and the skips of the block.
Advance(c) == 1 + Skip(c)

\* The nine lines fix_sling.py writes in place of a line that holds
\* "const active =".
SlingBlock ==
  <<<<"  const distL = Math.sqrt(DL[0]**2 + DL[1]**2)", 0, 0>>,
    <<"  const distR = Math.sqrt(DR[0]**2 + DR[1]**2)", 0, 0>>,
    <<"  const active = [", 0, 0>>,
    <<"    true, true, // CW Hinge", 0, 0>>,
    <<"    distL > trebuchetProps.slingLength || x?.[12] < 0, // Sling L", 0, 0>>,
    <<"    distR > trebuchetProps.slingLength || x?.[13] < 0, // Sling R", 0, 0>>,
    <<"    !wasReleased, // Projectile/Bag contact", 0, 0>>,
    <<"    onRail // Ground", 0, 0>>,
    <<"  ]", 0, 0>>>>

\* The single-line definition of the mask.
ActiveLine ==
  <<"  const active = [true, true, true, true, !wasReleased, onRail]", 0, 0>>

\*   if "const active =" in line
HasActiveDef(line) == line \in {ActiveLine, SlingBlock[3]}

Other(n) == <<"other", 0, n>>
\* The first assignment of gamma[c] and the lines of its later statements.
Statements(c) == <<<<"first", c, 0>>>> \o [n \in 1..Skip(c) |-> <<"old", c, n>>]

\* Files for fix_derivatives_v2.py: one block between other lines, a block
\* cut off by the end of the file, two blocks, a first line right after
\* another one, and files with no first line.
V2Files ==
  {<<Other(1)>> \o Statements(c) \o <<Other(2)>> : c \in 0..4}
  \cup {SubSeq(Statements(c), 1, 3) : c \in 0..4}
  \cup {Statements(c) \o <<Other(1)>> \o Statements(d) :
          c \in {0, 2}, d \in {1, 3, 4}}
  \cup {<<Statements(c)[1], Statements(d)[1], Other(1), Other(2), Other(3),
          Other(4), Other(5)>> : c \in {0, 4}, d \in {1, 2}}
  \cup {<<>>, <<Other(1), Other(2)>>, <<Other(2), Other(1), Other(2)>>}

\* Files for fix_sling.fix_file: the single-line definition among other
\* lines, and a file without it.
SlingFiles ==
  {<<Other(1), ActiveLine, Other(2)>>, <<ActiveLine>>,
   <<Other(1), Other(2), ActiveLine>>, <<Other(1), Other(2)>>}

MaxRuns == 2

FileInit ==
  /\ \/ script = "fix_derivatives_v2.py" /\ file \in V2Files
     \/ script = "fix_sling.py" /\ file \in SlingFiles
  /\ before = <<>>
  /\ lines = <<>>
  /\ index = 0
  /\ new_lines = <<>>
  /\ from = <<>>
  /\ fpc = "start"
  /\ runs = 0

FileIdle ==
  /\ script = "fix_sling.py"
  /\ file = <<>>
  /\ before = <<>>
  /\ lines = <<>>
  /\ index = 0
  /\ new_lines = <<>>
  /\ from = <<>>
  /\ fpc = "start"
  /\ runs = 0

\* fix_file(filename) starts, for the first time or again on the file the
\* last run wrote: lines = f.readlines(); new_lines = []; i = 0.
ReadLines ==
  /\ fpc \in {"start", "done"}
  /\ runs < MaxRuns
  /\ before' = file
  /\ lines' = file
  /\ index' = 0
  /\ new_lines' = <<>>
  /\ from' = <<>>
  /\ fpc' = "loop"
  /\ UNCHANGED <<script, file, runs>>
  /\ UNCHANGED besideFile

\* One iteration of "while i < len(lines)" in fix_derivatives_v2.py.
IterateV2 ==
  /\ script = "fix_derivatives_v2.py"
  /\ fpc = "loop"
  /\ index < Len(lines)
  /\ \E c \in {Block(lines[index + 1])} :
        /\ new_lines' = new_lines \o <<lines[index + 1]>> \o Written(c)
        /\ from' = from \o <<index + 1>> \o [n \in 1..Len(Written(c)) |-> 0]
        /\ index' = index + Advance(c)
  /\ UNCHANGED <<script, file, before, lines, fpc, runs>>
  /\ UNCHANGED besideFile

\* One iteration of "for line in lines" in fix_sling.py.
IterateSling ==
  /\ script = "fix_sling.py"
  /\ fpc = "loop"
  /\ index < Len(lines)
  /\ IF HasActiveDef(lines[index + 1])
     THEN /\ new_lines' = new_lines \o SlingBlock
          /\ from' = from \o [n \in 1..Len(SlingBlock) |-> 0]
     ELSE /\ new_lines' = Append(new_lines, lines[index + 1])
          /\ from' = Append(from, index + 1)
  /\ index' = index + 1
  /\ UNCHANGED <<script, file, before, lines, fpc, runs>>
  /\ UNCHANGED besideFile

\* The loop is over: f.writelines(new_lines).
WriteLines ==
  /\ fpc = "loop"
  /\ index >= Len(lines)
  /\ file' = new_lines
  /\ fpc' = "done"
  /\ runs' = runs + 1
  /\ UNCHANGED <<script, before, lines, index, new_lines, from>>
  /\ UNCHANGED besideFile

SolveSpecInit == SolveInit /\ MaskIdle /\ PatchIdle /\ BiasIdle /\ FileIdle

SolveNext == CallSolveSchur

SolveSpec == SolveSpecInit /\ [][SolveNext]_vars

MaskSpecInit == MaskInit /\ SolveIdle /\ PatchIdle /\ BiasIdle /\ FileIdle

MaskNext == Evaluate \/ Integrate \/ Release

MaskSpec == MaskSpecInit /\ [][MaskNext]_vars

PatchSpecInit == PatchInit /\ SolveIdle /\ MaskIdle /\ BiasIdle /\ FileIdle

PatchNext == fix_physics_clean \/ fix_physics_final \/ ClampStep

PatchSpec == PatchSpecInit /\ [][PatchNext]_vars

MismatchSpecInit == MismatchInit /\ MaskIdle /\ PatchIdle /\ BiasIdle /\ FileIdle

MismatchNext == CallSolveSchur

MismatchSpec == MismatchSpecInit /\ [][MismatchNext]_vars

BiasSpecInit == BiasInit /\ SolveIdle /\ MaskIdle /\ PatchIdle /\ FileIdle

BiasNext == fix_derivatives \/ fix_derivatives_v2 \/ BuildGamma

BiasSpec == BiasSpecInit /\ [][BiasNext]_vars

\* ------------------------------------------------- properties of solveSchur

Active == {c \in 1..dimC : mask[c]}
AllFinite(s) == \A i \in DOMAIN s : IsFin(s[i])
FiniteInputs == AllFinite(Q) /\ AllFinite(gamma)
Symmetric(M) == \A i \in DOMAIN M : \A k \in DOMAIN M : M[i][k] = M[k][i]
\* The position of active constraint c in activeIdx: the number of active
\* constraints up to c.
Rank(c) == Cardinality({a \in Active : a <= c})

\* C1: with no active constraint the call returns q_ddot[j] = Minv[j] * Q[j]
\* for every j and a lambda of dimC zeros, by the m === 0 return: no reduced
\* system is assembled or solved; with unit Minv, q_ddot is Q.
C1_FreeMotion ==
  (pc # "call" /\ Active = {}) =>
     /\ pc = "returned"
     /\ path = "free"
     /\ loc = NoLocals
     /\ Len(q_ddot) = dimQ
     /\ \A j \in 1..dimQ : q_ddot[j] = Mul(Minv[j], Q[j])
     /\ Len(lambda) = dimC
     /\ \A c \in 1..dimC : lambda[c] = Zero
     /\ (\A j \in 1..dimQ : Minv[j] = One) => q_ddot = Q

C1_Witness ==
  /\ pc = "returned"
  /\ Active = {}
  /\ dimC = 2
  /\ dimQ = 2
  /\ Minv = <<Num(3), One>>
  /\ Q[1] = Num(-1)
  /\ q_ddot = <<Num(-3), Num(2)>>

\* C2: the returned lambda has length dimC, is zero at every inactive
\* constraint, and holds entry i of the reduced solution at activeIdx[i],
\* where activeIdx lists the active indices in increasing order.
C2_Scatter ==
  pc = "returned" =>
     /\ Len(lambda) = dimC
     /\ Len(activeIdx) = Cardinality(Active)
     /\ \A i \in DOMAIN activeIdx : activeIdx[i] \in Active
     /\ \A i, k \in DOMAIN activeIdx : i < k => activeIdx[i] < activeIdx[k]
     /\ \A c \in 1..dimC : ~mask[c] => lambda[c] = Zero
     /\ path = "schur" =>
          /\ Len(loc.solLambda) = Len(activeIdx)
          /\ \A i \in DOMAIN activeIdx : lambda[activeIdx[i]] = loc.solLambda[i]
          /\ \A c \in Active : lambda[c] = loc.solLambda[Rank(c)]

C2_Witness ==
  /\ pc = "returned"
  /\ mask = <<FALSE, TRUE, TRUE>>
  /\ activeIdx = <<2, 3>>
  /\ lambda[1] = Zero
  /\ IsFin(lambda[2]) /\ IsFin(lambda[3])
  /\ lambda[2] # Zero /\ lambda[3] # Zero /\ lambda[2] # lambda[3]

\* C3: the reduced matrix satisfies S[i][k] = S[k][i] as assembled, after
\* the compliance and epsilon were added to its diagonal, and as handed to
\* the linear solver (after the scaling by D[i] * D[j] in
\* fix_physics_final.py), for finite J, Minv and Q.
C3_Symmetric ==
  (pc = "returned" /\ path = "schur" /\ FiniteInputs) =>
     /\ Symmetric(loc.S_asm)
     /\ Symmetric(loc.S_reg)
     /\ Symmetric(loc.S)

\* C4: every entry of the returned lambda is a finite number: a NaN, a
\* +Infinity or a -Infinity of the linear solve is returned as zero.
C4_LambdaFinite ==
  pc = "returned" => AllFinite(lambda)

\* C5: the call never throws, whatever the rank of the active rows of J: it
\* returns q_ddot of length dimQ and lambda of length dimC, and on finite
\* inputs every entry of both is a finite number.
C5_AlwaysSolves ==
  pc # "call" =>
     /\ pc = "returned"
     /\ Len(q_ddot) = dimQ
     /\ Len(lambda) = dimC
     /\ (FiniteInputs /\ path = "schur") =>
          /\ AllFinite(loc.raw)
          /\ AllFinite(lambda)
          /\ AllFinite(q_ddot)

\* Two active constraints with the same nonzero row, whose rows of the
\* reduced matrix are equal as handed to the linear solver, and an active
\* all-zero row that is not soft.
C5_Witness ==
  /\ pc = "returned"
  /\ FiniteInputs
  /\ dimC = 4
  /\ Active = {1, 2, 3, 4}
  /\ J[1] = J[2]
  /\ \E j \in 1..dimQ : J[1][j] # Zero
  /\ \A j \in 1..dimQ : J[4][j] = Zero
  /\ ~IsSoft(4, cfg)
  /\ loc.S[1] = loc.S[2]
  /\ AllFinite(lambda)
  /\ lambda[1] # Zero

\* ---------------------------------------------- properties of the active mask

\* d/dt |D| = (D . dv) / |D|: the separation of the attachment points shrinks
\* when D . dv < 0.
SeparationVelocityNegative(D, dv) ==
  Lt(Add(Mul(D[1], dv[1]), Mul(D[2], dv[2])), Zero)
ReachedLength(D) == ~Lt(Dist(D), trebuchetProps.slingLength)

\* C6: a sling constraint is active exactly when the distance of its
\* attachment points is greater than or equal to the sling length or the
\* outward separation velocity is negative; at distance = slingLength it is
\* active.  (active[3], active[4] are the code's active[2], active[3].)
C6_SlingInclusive ==
  fresh =>
     /\ active[3] <=> (ReachedLength(DL) \/ SeparationVelocityNegative(DL, dvL))
     /\ active[4] <=> (ReachedLength(DR) \/ SeparationVelocityNegative(DR, dvR))

\* C7: the contact constraint (the code's active[4]) is active in an
\* evaluation if and only if wasReleased is false in it: every evaluation
\* after the release has it inactive, whatever the geometry.
C7_ContactUntilReleased ==
  fresh => (active[5] <=> ~wasReleased)

C7_Witness ==
  /\ fresh
  /\ wasReleased
  /\ ~active[5]
  /\ active[3]
  /\ active[6]
  /\ Gt(Dist(DL), trebuchetProps.slingLength)

\* C8: wasReleased is a one-way latch: no step of a run, evaluation,
\* integration or release, takes it from true back to false.
C8_ReleasedLatch ==
  [][wasReleased => wasReleased']_vars

C8_Witness ==
  /\ wasReleased
  /\ fresh
  /\ x.def
  /\ Lt(Dist(DL), trebuchetProps.slingLength)
  /\ Gt(Dist(DR), trebuchetProps.slingLength)

C10_MaskOfStateOnly ==
  [][(fresh /\ fresh') => active' = active]_vars

\* C11: the mask the selector chose is used for exactly one solve: no
\* evaluation solves again because of the sign of a multiplier of its first
\* solution (the ground multiplier x[15] or a sling multiplier).
C11_OneSolve ==
  fresh => solves = 1

\* --------------------------------------------------- properties of the clamp

IsSling(c) == c - 1 \in {2, 3}

\* C13: the regularization adds the same eps to S[i][i] of every active
\* constraint, and adds the compliance to S[i][i] if and only if active
\* constraint i is a sling constraint: never for a hinge, the body contact or
\* the ground.
C13_ComplianceOnlySling ==
  (pc = "returned" /\ path = "schur") =>
     \A c \in Active :
        loc.S_reg[Rank(c)][Rank(c)] =
          Add(IF IsSling(c)
              THEN Add(loc.S_asm[Rank(c)][Rank(c)], Compliance(variant, cfg))
              ELSE loc.S_asm[Rank(c)][Rank(c)],
              Eps(variant, cfg))

\* The sum of a sequence of integers.
RECURSIVE IntSum(_, _)
IntSum(s, n) == IF n = 0 THEN 0 ELSE IntSum(s, n - 1) + s[n]

\* The sign of v^T M v for an integer vector v and a finite matrix M, computed
\* without rounding: every entry is brought to the denominator den, a common
\* multiple of the entries' denominators.
QuadForm(M, v, den) ==
  LET m == Len(M)
  IN  IntSum([p \in 1..(m * m) |->
                v[((p - 1) \div m) + 1] * v[((p - 1) % m) + 1]
                  * M[((p - 1) \div m) + 1][((p - 1) % m) + 1].n
                  * (den \div M[((p - 1) \div m) + 1][((p - 1) % m) + 1].d)],
             m * m)

RECURSIVE CommonDen(_, _)
CommonDen(M, p) ==
  IF p = 0 THEN 1
  ELSE LET m == Len(M)
           d == M[((p - 1) \div m) + 1][((p - 1) % m) + 1].d
           c == CommonDen(M, p - 1)
       IN  (c * d) \div Gcd(c, d)

PositiveDefinite(M) ==
  /\ \A i \in DOMAIN M : Gt(M[i][i], Zero)
  /\ \A v \in [1..Len(M) -> {-1, 0, 1}] :
        (\E i \in 1..Len(M) : v[i] # 0) =>
           QuadForm(M, v, CommonDen(M, Len(M) * Len(M))) > 0

\* C14: after the regularization the reduced matrix is strictly positive
\* definite for every active set, dependent and all-zero rows of J included:
\* every diagonal entry is positive and v^T S v > 0 for every non-zero v (here
\* the vectors with entries -1, 0 and 1).
C14_PositiveDefinite ==
  (pc = "returned" /\ path = "schur") => PositiveDefinite(loc.S_reg)

\* What does hold: every diagonal entry of the regularized matrix is positive.
DiagonalPositive ==
  (pc = "returned" /\ path = "schur") =>
     \A i \in DOMAIN loc.S_reg : Gt(loc.S_reg[i][i], Zero)

\* ------------------------------------------------ properties of the recovery

\* J[i][j] * lambda[i] summed over the active constraints only, in the order
\* of their indices.
ActiveForce(j) ==
  SumSeq([i \in 1..Len(activeIdx) |->
            Mul(J[activeIdx[i]][j], lambda[activeIdx[i]])])

\* C15: with at least one active constraint the returned acceleration is
\* q_ddot[j] = Minv[j] * (Q[j] - sum of J[i][j] * lambda[i] over the
\* constraints i with mask[i] true), for every coordinate j; the rows of the
\* inactive constraints do not enter the sum.
C15_Recovery ==
  (pc = "returned" /\ path = "schur") =>
     /\ Len(q_ddot) = dimQ
     /\ \A j \in 1..dimQ :
           q_ddot[j] = Mul(Minv[j], Sub(Q[j], ActiveForce(j)))

\* A call with an inactive constraint whose row touches a coordinate that an
\* active constraint with a non-zero multiplier pulls on.
C15_Witness ==
  /\ pc = "returned"
  /\ path = "schur"
  /\ \E j \in 1..dimQ :
        /\ \E c \in 1..dimC : ~mask[c] /\ J[c][j] # Zero
        /\ \E c \in Active : J[c][j] # Zero /\ IsFin(lambda[c]) /\ lambda[c] # Zero
        /\ IsFin(q_ddot[j])
        /\ q_ddot[j] # Mul(Minv[j], Q[j])

\* --------------------------------------------------------- the hinge scenario

\* C16: in the single hinge scenario the reduced system is S = [[1]] plus eps
\* and nothing else, lambda[0] = 10 / (1 + eps), q_ddot[0] = 10 - lambda[0]
\* and q_ddot[k] = Minv[k] * Q[k] for every k > 0.
C16_SingleHinge ==
  (pc = "returned" /\ HingeScenario) =>
     /\ loc.S_reg = <<<<Add(One, Eps(variant, cfg))>>>>
     /\ lambda = <<Div(Num(10), Add(One, Eps(variant, cfg)))>>
     /\ q_ddot[1] = Sub(Num(10), lambda[1])
     /\ \A k \in 2..dimQ : q_ddot[k] = Mul(Minv[k], Q[k])

\* ------------------------------------------------------ properties of gamma

\* J[c] . q_dot over all the coordinates.
RECURSIVE RowDotQdot(_)
RowDotQdot(n) ==
  IF n < 0 THEN 0 ELSE RowDotQdot(n - 1) + Jc[n] * q_dot[n]

BiasFormula ==
  gammaC = -dJq - 2 * alpha_b * RowDotQdot(9) - beta_b * beta_b * pos_C

\* C17: for every constraint c of the patched builder, gamma[c] =
\* -(dJ[c]/dt . q_dot) - 2 * alpha_b * (J[c] . q_dot) - beta_b^2 * C(q), the
\* velocity sum taken over exactly the columns row c touches; for the builder
\* fix_derivatives.py leaves and for the one fix_derivatives_v2.py leaves.
C17_BiasFormula ==
  built => BiasFormula

\* What does hold: the builder fix_derivatives_v2.py leaves follows the formula.
BiasFormulaV2 ==
  (built /\ builder = "v2") => BiasFormula

\* ------------------------------------------------------ mismatched dimensions

Mismatched ==
  \/ Len(Minv) # dimQ
  \/ Len(Q) # dimQ
  \/ \E c \in DOMAIN J : Len(J[c]) # dimQ
  \/ Len(mask) # dimC
  \/ Len(gamma) # dimC

\* C19: a call whose inputs have mismatched dimensions (Minv or Q not of
\* length dimQ, a row of J not of length dimQ, mask or gamma not of length
\* dimC) ends in a fatal error and returns neither q_ddot nor lambda.
C19_MismatchFatal ==
  (pc # "call" /\ Mismatched) =>
     /\ pc = "thrown"
     /\ q_ddot = <<>>
     /\ lambda = <<>>

\* -------------------------------------------------- properties of the hinges

\* C20: the two hinge constraints (indices 0 and 1 of the source) are active
\* in the mask of every evaluation, whatever q, q_dot and the released flag.
C20_HingesActive ==
  x.def => (active[1] /\ active[2])

\* An evaluation after the release, with both slings slack and off the rail:
\* the hinges are the only active constraints.
C20_Witness ==
  /\ x.def
  /\ fresh
  /\ wasReleased
  /\ active = <<TRUE, TRUE, FALSE, FALSE, FALSE, FALSE>>

\* ------------------------------------------------------ frame of solveSchur

\* C21: a call of solveSchur leaves J, Minv, Q, gamma, the mask, q, q_dot and
\* the released flag as they were, stores into none of them, and returns a
\* q_ddot and a lambda that are objects of their own: neither is one of the
\* inputs, and they are not each other.
C21_InputsUntouched ==
  [][CallSolveSchur =>
       /\ <<J, Minv, Q, gamma, mask>>' = <<J, Minv, Q, gamma, mask>>
       /\ <<DL, DR, dvL, dvR, wasReleased>>' = <<DL, DR, dvL, dvR, wasReleased>>
       /\ heap'.written \cap InputObjects = {}
       /\ pc' = "returned" =>
            /\ heap'.q_ddot \notin InputObjects \cup {"none"}
            /\ heap'.lambda \notin InputObjects \cup {"none"}
            /\ heap'.q_ddot # heap'.lambda]_vars

\* A call with no active constraint has returned, the case where q_ddot is
\* computed from Q alone.
C21_Witness ==
  /\ pc = "returned"
  /\ path = "free"
  /\ heap.q_ddot = "Q.map"
  /\ q_ddot # Q

\* C23: a sling constraint is not latched, and in every evaluation its mask
\* entry is the value the taut test gives for the state that evaluation
\* reads: here the test of the code itself, distance > slingLength, on the
\* geometry of the call.
C23_TautOfCallState ==
  fresh =>
     /\ active[3] <=> Gt(Dist(DL), trebuchetProps.slingLength)
     /\ active[4] <=> Gt(Dist(DR), trebuchetProps.slingLength)

\* C25: the J row and the gamma entry of an inactive constraint have no
\* influence.  The call on the inputs at hand and the calls on inputs that
\* agree with them on mask, Minv, Q and the active rows and entries, and
\* carry NaN or 7 in every inactive row and entry, end the same way with
\* the same q_ddot and lambda.
C25_InactiveRowsUnread ==
  (pc # "call" /\ \E c \in DOMAIN mask : ~mask[c]) =>
     \A v \in {NaN, Num(7)} :
        \E r \in {solveSchur(variant, cfg, dimQ, dimC,
                             Elsewhere(J, mask, [j \in 1..dimQ |-> v]),
                             Minv, Q, Elsewhere(gamma, mask, v), mask)} :
           /\ r.status = pc
           /\ r.q_ddot = q_ddot
           /\ r.lambda = lambda

\* A solve with one active and one inactive constraint, the inactive one
\* with a row and a bias that are not zero, and a multiplier that is not zero
\* for the active one.
C25_Witness ==
  /\ pc = "returned"
  /\ path = "schur"
  /\ \E c \in DOMAIN mask :
        /\ ~mask[c]
        /\ \E j \in 1..dimQ : J[c][j] # Zero
        /\ gamma[c] # Zero
  /\ \E c \in DOMAIN mask : mask[c] /\ lambda[c] # Zero

\* ------------------------------------------------ calls in exact arithmetic

\* Inputs whose regularized diagonal in fix_physics_final.py is the square of
\* a rational: Minv = [1, 1], the rows of J have squared length 0, 4 or 10,
\* and compliance + eps = 1/4 + 2.  fix_physics_clean.py takes no root and is
\* also run with Minv = [3, 1].  At most two constraints are active.
ExactGrid ==
  /\ cfg = [base |-> Num(2), dtRef |-> Fin(1, 4), m_p |-> One, N |-> 1]
  /\ dimQ = 2
  /\ dimC \in 1..3
  /\ J \in [1..dimC -> {<<Zero, Zero>>, <<Num(2), Zero>>, <<Zero, Num(2)>>,
                        <<One, Num(3)>>, <<Num(3), Num(-1)>>}]
  /\ Minv \in {<<One, One>>} \cup
              (IF variant = "clean" THEN {<<Num(3), One>>} ELSE {})
  /\ Q \in {<<Num(-1), Num(2)>>, <<Num(10), Num(3)>>}
  /\ gamma \in {[c \in 1..dimC |-> IF c = 1 THEN One ELSE Zero],
                [c \in 1..dimC |-> Num(1 - c)]}
  /\ mask \in {mk \in [1..dimC -> BOOLEAN] : Len(ActiveIdx(mk)) <= 2}

\* The fourth constraint, which gets no compliance, alone and with a zero
\* row: its regularized diagonal entry is eps = 1/64, under the floor of the
\* equilibration.
FloorScenario ==
  /\ cfg = [base |-> Fin(1, 64), dtRef |-> Fin(1, 4), m_p |-> One, N |-> 1]
  /\ dimQ = 2
  /\ dimC = 4
  /\ J = [c \in 1..4 |-> <<Zero, Zero>>]
  /\ Minv = <<One, One>>
  /\ Q = <<Num(10), Num(3)>>
  /\ gamma = <<Zero, Zero, Zero, One>>
  /\ mask = <<FALSE, FALSE, FALSE, TRUE>>

ExactInit ==
  /\ variant \in Variants
  /\ ExactGrid \/ FloorScenario
  /\ pc = "call"
  /\ path = "none"
  /\ activeIdx = <<>>
  /\ loc = NoLocals
  /\ q_ddot = <<>>
  /\ lambda = <<>>
  /\ heap = NoHeap

\* One call of solveSchur(mask) in exact arithmetic.
CallSolveExact ==
  /\ pc = "call"
  /\ \E r \in {ExactSchur(variant, cfg, dimQ, dimC, J, Minv, Q, gamma, mask)} :
         /\ pc' = r.status
         /\ path' = r.path
         /\ activeIdx' = r.activeIdx
         /\ loc' = r.loc
         /\ q_ddot' = r.q_ddot
         /\ lambda' = r.lambda
         /\ heap' = HeapAfter(variant, r.status, r.path)
  /\ UNCHANGED inputs
  /\ UNCHANGED besideSolve

ExactSpecInit == ExactInit /\ MaskIdle /\ PatchIdle /\ BiasIdle /\ FileIdle

ExactNext == CallSolveExact

ExactSpec == ExactSpecInit /\ [][ExactNext]_vars

\* C24: equilibration does not change the answer.  In exact arithmetic the
\* scaled matrix of fix_physics_final.py has a diagonal entry 1 wherever the
\* regularized entry is at least the floor, and the un-scaled solution
\* D[i] * y[i] of the scaled system is the solution of the regularized
\* unscaled system, the one fix_physics_clean.py solves as it stands.
C24_EquilibrationKeepsSolution ==
  (pc = "returned" /\ path = "schur") =>
     /\ loc.solLambda = ExactSolve(loc.S_reg, loc.rhs_reg)
     /\ variant = "final" =>
          \A i \in DOMAIN loc.S :
             ~Lt(loc.S_reg[i][i], EquilFloor) => loc.S[i][i] = One

\* The scaled system of two rows differs from the unscaled one in its
\* matrix, its right-hand side and its solution.
C24_Witness ==
  /\ pc = "returned"
  /\ path = "schur"
  /\ variant = "final"
  /\ Len(loc.S) = 2
  /\ loc.D[1] # loc.D[2]
  /\ loc.S_reg[1][2] # Zero
  /\ loc.S # loc.S_reg
  /\ loc.raw # loc.solLambda

SlingInit ==
  /\ builder = "v2"
  /\ con \in {2, 3}
  /\ Jc \in JcVals(con)
  /\ q_dot \in QdotVals
  /\ alpha_b \in {1, 2}
  /\ beta_b = 1
  /\ dJq = 0
  /\ pos_C = 0
  /\ gammaC = 0
  /\ \E D \in {<<0, 1>>, <<3, 4>>, <<-2, 1>>}, w \in {1, 2},
        ps \in {<<5, 0>>, <<3, 4>>, <<0, 5>>} :
        sling = [D |-> D, dv |-> <<1, -1>>,
                 g |-> [Lf |-> 2, Lw |-> 1, W2 |-> w, slingLength |-> 3,
                        cos_th |-> 4, sin_th |-> 3, cos_thdl |-> 0,
                        sin_thdl |-> 5, cos_ps |-> ps[1], sin_ps |-> ps[2]]]
  /\ built = FALSE

\* The statements of gamma[2] or gamma[3] run.
BuildSlingGamma ==
  /\ builder = "v2"
  /\ con \in {2, 3}
  /\ ~built
  /\ gammaC' = SlingGammaOf(con, sling.D, sling.dv,
                            IF con = 2
                            THEN BagCentripetalLeft(sling.D, sling.g.W2, sling.g, q_dot[7])
                            ELSE BagCentripetalRight(sling.D, sling.g.W2, sling.g, q_dot[7]),
                            sling.g, Jc, q_dot, alpha_b, beta_b)
  /\ built' = TRUE
  /\ UNCHANGED <<builder, con, Jc, q_dot, alpha_b, beta_b, dJq, pos_C, sling>>
  /\ UNCHANGED besideBias

SlingSpecInit == SlingInit /\ SolveIdle /\ MaskIdle /\ PatchIdle /\ FileIdle

SlingNext == BuildSlingGamma

SlingSpec == SlingSpecInit /\ [][SlingNext]_vars

\* C27: the bias of the right sling is the bias of the left sling with DL
\* replaced by DR and the bag offset W/2 replaced by -W/2 in both the cos
\* and the sin component of the bag centripetal term, the arm-tip
\* centripetal term and the Baumgarte term being of the same form.
C27_RightMirrorsLeft ==
  (built /\ con = 3) =>
     gammaC = SlingGammaOf(3, sling.D, sling.dv,
                           BagCentripetalLeft(sling.D, -sling.g.W2, sling.g, q_dot[7]),
                           sling.g, Jc, q_dot, alpha_b, beta_b)

\* ------------------------------------------------------ runs of the scripts

FileSpecInit ==
  FileInit /\ SolveIdle /\ MaskIdle /\ PatchIdle /\ BiasIdle

FileNext == ReadLines \/ IterateV2 \/ IterateSling \/ WriteLines

FileSpec == FileSpecInit /\ [][FileNext]_vars

\* The runs with every step taken in the end.
FileFairSpec == FileSpec /\ WF_vars(FileNext)

\* C28: fix_derivatives_v2.fix_file is idempotent: run on a file it has
\* already rewritten it writes the same file back, whichever of the five
\* blocks the file holds.
C28_V2Idempotent ==
  (script = "fix_derivatives_v2.py" /\ fpc = "done" /\ runs = 2) => file = before

\* The input lines the run at hand copied, by index.
Copied == {from[k] : k \in DOMAIN from} \ {0}

\* Input line p is one of the lines passed over after a line that met the
\* condition of a block.
PassedOver(p) ==
  \E m \in Copied :
     Block(lines[m]) # NoBlock /\ m < p /\ p <= m + Skip(Block(lines[m]))

\* What a finished run of fix_derivatives_v2.fix_file has copied.
CopiedThrough ==
  (script = "fix_derivatives_v2.py" /\ fpc = "done") =>
     /\ \A k \in DOMAIN new_lines : from[k] # 0 => new_lines[k] = lines[from[k]]
     /\ \A k, l \in DOMAIN from : (k < l /\ from[k] # 0 /\ from[l] # 0) => from[k] < from[l]
     /\ \A p \in DOMAIN lines : p \in Copied \/ PassedOver(p)
     /\ (\A p \in DOMAIN lines : Block(lines[p]) = NoBlock) => file = lines

\* C29: the line loop of fix_derivatives_v2.fix_file terminates for every
\* input, the index growing in every iteration; the run copies to the
\* output, unchanged and in their order, all input lines but those passed
\* over after a line that met a block's condition; and an input with no such
\* line is written back as it was.
C29_LoopTerminatesAndCopies ==
  /\ [][IterateV2 => index' > index]_vars
  /\ (script = "fix_derivatives_v2.py" /\ fpc = "loop") ~> (fpc = "done")
  /\ []CopiedThrough

\* A run has ended with the index beyond the end of the file, after a block
\* whose passed-over lines the file did not hold, and has copied a line
\* before the block.
C29_Witness ==
  /\ script = "fix_derivatives_v2.py"
  /\ fpc = "done"
  /\ index > Len(lines)
  /\ Len(lines) > 0
  /\ \E p \in DOMAIN lines : PassedOver(p)
  /\ Len(new_lines) > Len(lines)

\* C30: fix_sling.fix_file, applied to a file with one single-line
\* definition of the mask, leaves one definition (the nine lines it writes)
\* and every other line as it was; applied again to its own output it
\* writes the same file back.
C30_SlingIdempotent ==
  /\ (script = "fix_sling.py" /\ fpc = "done" /\ runs = 1
        /\ \E k \in DOMAIN before : before[k] = ActiveLine) =>
        /\ Cardinality({k \in DOMAIN file : HasActiveDef(file[k])}) = 1
        /\ \A p \in DOMAIN lines : lines[p] = ActiveLine \/ p \in Copied
  /\ (script = "fix_sling.py" /\ fpc = "done" /\ runs = 2) => file = before

====
